---------------------------- MODULE Spec2Model ----------------------------
(***************************************************************************)
(* A model of src/cyclemae.py: the masking bookkeeping of                  *)
(* Encoder.random_masking, the restore step of Decoder.forward, the        *)
(* patchify/unpatchify reshapes and the loss assembly of CycleMAE.forward. *)
(*                                                                         *)
(* Tensors are functions over 0-based index ranges, as in the source.  A   *)
(* token, a prediction row or a loss row is a record naming where it came  *)
(* from (sample, patch, decoder, encode pass), so that the index           *)
(* bookkeeping is what the model computes.  The Transformer blocks, the    *)
(* patch embedding and the linear layers are external, shape preserving    *)
(* per-slot maps: they keep a slot's origin.                               *)
(***************************************************************************)
EXTENDS Integers, Sequences, FiniteSets, TLC

VARIABLES enc, dec, pat, fwd

vars == <<enc, dec, pat, fwd>>

(***************************************************************************)
(* Bounds of the model.                                                    *)
(***************************************************************************)
MaxL == 3
RatioDen == 4
NoiseValues == {0, 1}
MaskBatchSizes == {1, 2}

Min(a, b) == IF a <= b THEN a ELSE b
Max(a, b) == IF a >= b THEN a ELSE b

(***************************************************************************)
(* Python and torch primitives.                                            *)
(***************************************************************************)
\* int(a / b) for exact a / b: truncation toward zero.
PyInt(a, b) == IF a >= 0 THEN a \div b ELSE -((-a) \div b)

\* The stop of the slice x[:k] of a sequence of n elements.
SliceStop(k, n) == IF k < 0 THEN Max(n + k, 0) ELSE Min(k, n)

\* The index orders of a row of L elements.
Perms0(L) == Permutations(0..(L - 1))

\* p lists the indices of s in an ascending order of their values.
Sorts(p, s) == \A i, j \in DOMAIN s : i < j => s[p[i]] <= s[p[j]]

\* torch.argsort(s, dim=1) of one row: every index order that sorts s
\* ascending (equal values may come out in any order).
Argsort(s) == {p \in Perms0(Cardinality(DOMAIN s)) : Sorts(p, s)}

\* torch.gather(src, dim=1, index) of one row.
Gather(src, index) == [p \in DOMAIN index |-> src[index[p]]]

\* torch.cat([a, b], dim=1) of one row.
Cat(a, b) ==
    LET la == Cardinality(DOMAIN a)
        lb == Cardinality(DOMAIN b)
    IN  [k \in 0..(la + lb - 1) |-> IF k < la THEN a[k] ELSE b[k - la]]

\* x[:, lo:hi] of one row, lo and hi already clipped.
Slice(a, lo, hi) == [k \in 0..(hi - lo - 1) |-> a[lo + k]]

(***************************************************************************)
(* Encoder.random_masking                                                  *)
(***************************************************************************)
\* The patch sequence a sample enters with: one marker per patch.
PatchTokens(n, L) == [p \in 0..(L - 1) |-> [kind |-> "patch", sample |-> n, patch |-> p]]

\* len_keep = int(L * (1 - mask_ratio)), mask_ratio = ratio / RatioDen,
\* computed exactly (ratios with denominator 4 are exact in floating point).
LenKeep(L, ratio) == PyInt(L * (RatioDen - ratio), RatioDen)

\* mask = ones; mask[:, :len_keep] = 0; mask = gather(mask, ids_restore)
MaskRowShuffled(ids_restore, len_keep) ==
    [k \in DOMAIN ids_restore |->
        IF k < SliceStop(len_keep, Cardinality(DOMAIN ids_restore)) THEN 0 ELSE 1]

\* A masking that forgets to unshuffle the mask.
MaskRowNotUnshuffled(ids_restore, len_keep) ==
    MaskRowShuffled(ids_restore, len_keep)

MaskRow(ids_restore, len_keep) ==
    Gather(MaskRowShuffled(ids_restore, len_keep), ids_restore)

\* ids_keep = ids_shuffle[:, :len_keep]; x_masked = gather(x, ids_keep)
KeptRow(x, ids_shuffle, len_keep) ==
    Gather(x, Slice(ids_shuffle, 0, SliceStop(len_keep, Cardinality(DOMAIN ids_shuffle))))

MaskRatios == (0 - 2)..(RatioDen + 2)

EncIdle == [pc |-> "idle"]

EncInit ==
    \E L \in 1..MaxL, N \in MaskBatchSizes, ratio \in MaskRatios :
        enc = [pc |-> "start", L |-> L, N |-> N, mask_ratio |-> ratio]

\* noise = torch.rand(N, L); ids_shuffle = torch.argsort(noise, dim=1): the
\* shuffles one row of noise can give.
Shuffles(L) ==
    {p \in Perms0(L) : \E noise \in [0..(L - 1) -> NoiseValues] : p \in Argsort(noise)}

random_masking ==
    /\ enc.pc = "start"
    /\ \E ids_shuffle \in [0..(enc.N - 1) -> Shuffles(enc.L)] :
          LET len_keep == LenKeep(enc.L, enc.mask_ratio)
              ids_restore == [n \in 0..(enc.N - 1) |->
                                 CHOOSE r \in Argsort(ids_shuffle[n]) : TRUE]
          IN  enc' = [pc |-> "masked", L |-> enc.L, N |-> enc.N,
                      mask_ratio |-> enc.mask_ratio,
                      len_keep |-> len_keep,
                      ids_shuffle |-> ids_shuffle,
                      ids_restore |-> ids_restore,
                      x_masked |-> [n \in 0..(enc.N - 1) |->
                                      KeptRow(PatchTokens(n, enc.L), ids_shuffle[n], len_keep)],
                      mask |-> [n \in 0..(enc.N - 1) |->
                                      MaskRow(ids_restore[n], len_keep)]]
    /\ UNCHANGED <<dec, pat, fwd>>

(***************************************************************************)
(* Encoder.forward after the masking, and Decoder.forward up to the        *)
(* unshuffle.                                                              *)
(***************************************************************************)
ClsToken(n) == [kind |-> "cls", sample |-> n, patch |-> 0 - 1]
MaskToken(n) == [kind |-> "mask", sample |-> n, patch |-> 0 - 1]

\* x = cat((cls_tokens, x), dim=1); the blocks and the norm keep the slots.
Latent(n, x_masked) == Cat([k \in 0..0 |-> ClsToken(n)], x_masked)

\* mask_tokens = mask_token.repeat(N, ids_restore.shape[1] + 1 - x.shape[1], 1)
MaskTokens(n, x, ids_restore) ==
    [k \in 0..(Cardinality(DOMAIN ids_restore) + 1 - Cardinality(DOMAIN x) - 1) |-> MaskToken(n)]

\* A restore that gathers through the indices without dropping the summary
\* token first.
RestoreRowKeepsCls(n, x, ids_restore) ==
    Gather(Cat(x, MaskTokens(n, x, ids_restore)), ids_restore)

\* x_ = cat([x[:, 1:, :], mask_tokens]); x_ = gather(x_, ids_restore)
RestoreRow(n, x, ids_restore) ==
    Gather(Cat(Slice(x, 1, Cardinality(DOMAIN x)), MaskTokens(n, x, ids_restore)),
           ids_restore)

DecIdle == [pc |-> "idle"]

Decoder_forward ==
    /\ enc.pc = "masked"
    /\ dec.pc = "start"
    /\ LET latent == [n \in 0..(enc.N - 1) |-> Latent(n, enc.x_masked[n])]
           x_ == [n \in 0..(enc.N - 1) |-> RestoreRow(n, latent[n], enc.ids_restore[n])]
       IN  dec' = [pc |-> "restored", latent |-> latent, x_ |-> x_,
                   x |-> [n \in 0..(enc.N - 1) |->
                            Cat([k \in 0..0 |-> latent[n][0]], x_[n])]]
    /\ UNCHANGED <<enc, pat, fwd>>

PatIdle == [pc |-> "idle"]
FwdIdle == [pc |-> "idle"]

MaskInit == EncInit /\ dec = [pc |-> "start"] /\ pat = PatIdle /\ fwd = FwdIdle

MaskNext == random_masking \/ Decoder_forward

SpecMask == MaskInit /\ [][MaskNext]_vars

(***************************************************************************)
(* Tensors with a shape: a row-major buffer, as torch lays out the result  *)
(* of reshape on a contiguous tensor.                                      *)
(***************************************************************************)
RECURSIVE Prod(_)
Prod(shape) == IF shape = <<>> THEN 1 ELSE Head(shape) * Prod(Tail(shape))

\* The multi-index of flat offset k in a tensor of this shape.
RECURSIVE Unravel(_, _)
Unravel(k, shape) ==
    IF shape = <<>> THEN <<>>
    ELSE LET rest == Prod(Tail(shape))
         IN  <<k \div rest>> \o Unravel(k % rest, Tail(shape))

\* The flat offset of a multi-index.
RECURSIVE Ravel(_, _)
Ravel(idx, shape) ==
    IF shape = <<>> THEN 0
    ELSE Head(idx) * Prod(Tail(shape)) + Ravel(Tail(idx), Tail(shape))

\* tensor.reshape(shape): the same buffer under another shape.
ReshapeOk(t, shape) == Prod(shape) = Prod(t.shape)
Reshape(t, shape) == [shape |-> shape, data |-> t.data]

\* torch.einsum of a pure axis permutation: output axis k is input axis
\* axes[k] (1-based positions in the input's index string).
Permute(t, axes) ==
    LET oshape == [k \in 1..Len(axes) |-> t.shape[axes[k]]]
        InIdx(oidx) == [a \in 1..Len(axes) |->
                           oidx[CHOOSE k \in 1..Len(axes) : axes[k] = a]]
    IN  [shape |-> oshape,
         data |-> [o \in 0..(Prod(oshape) - 1) |->
                     t.data[Ravel(InIdx(Unravel(o, oshape)), t.shape)]]]

\* int(n ** .5)
ISqrt(n) == CHOOSE k \in 0..n : k * k <= n /\ (k + 1) * (k + 1) > n

(***************************************************************************)
(* CycleMAE.patchify and CycleMAE.unpatchify                               *)
(***************************************************************************)
MaxSide == 4
PatchSizes == {1, 2}
InChans == {1, 3}
PatBatchSizes == {1, 2}
Fills == {0, 1, 2}

\* The pixels of a test image: distinct markers, or a repeating pattern.
Pixel(fill, k) == IF fill = 0 THEN k ELSE (k * fill + 1) % (fill + 2)

\* 'nchpwq->nhwpqc'
PatchifyAxes == <<1, 3, 5, 4, 6, 2>>
\* 'nhwpqc->nchpwq'
UnpatchifyAxes == <<1, 6, 2, 4, 3, 5>>

\* x = imgs.reshape(N, 3, h, p, w, p); einsum; x.reshape(N, h*w, p**2 * 3)
PatchifyOk(imgs, p) ==
    /\ imgs.shape[3] = imgs.shape[4]
    /\ imgs.shape[3] % p = 0

PatchifyShape(imgs, p) ==
    LET h == imgs.shape[3] \div p
    IN  <<imgs.shape[1], 3, h, p, h, p>>

patchify(imgs, p) ==
    LET h == imgs.shape[3] \div p
    IN  Reshape(Permute(Reshape(imgs, PatchifyShape(imgs, p)), PatchifyAxes),
                <<imgs.shape[1], h * h, p * p * 3>>)

UnpatchifyOk(x) == ISqrt(x.shape[2]) * ISqrt(x.shape[2]) = x.shape[2]

UnpatchifyShape(x, p) ==
    LET h == ISqrt(x.shape[2])
    IN  <<x.shape[1], h, h, p, p, 3>>

unpatchify(x, p) ==
    LET h == ISqrt(x.shape[2])
    IN  Reshape(Permute(Reshape(x, UnpatchifyShape(x, p)), UnpatchifyAxes),
                <<x.shape[1], 3, h * p, h * p>>)

PatInit ==
    \E N \in PatBatchSizes, C \in InChans, H \in 1..MaxSide, W \in 1..MaxSide,
       p \in PatchSizes, fill \in Fills :
        pat = [pc |-> "start", in_chans |-> C, p |-> p,
               imgs |-> [shape |-> <<N, C, H, W>>,
                         data |-> [k \in 0..(N * C * H * W - 1) |-> Pixel(fill, k)]]]

\* patchify: the assert, then the reshape (which raises when the element
\* counts differ), then the einsum and the second reshape.
Patchify ==
    /\ pat.pc = "start"
    /\ IF ~PatchifyOk(pat.imgs, pat.p)
       THEN pat' = [pat EXCEPT !.pc = "error"] @@ [raised |-> "AssertionError"]
       ELSE IF ~ReshapeOk(pat.imgs, PatchifyShape(pat.imgs, pat.p))
       THEN pat' = [pat EXCEPT !.pc = "error"] @@ [raised |-> "RuntimeError"]
       ELSE pat' = [pat EXCEPT !.pc = "patchified"] @@ [x |-> patchify(pat.imgs, pat.p)]
    /\ UNCHANGED <<enc, dec, fwd>>

Unpatchify ==
    /\ pat.pc = "patchified"
    /\ IF ~UnpatchifyOk(pat.x)
       THEN pat' = [pat EXCEPT !.pc = "error"] @@ [raised |-> "AssertionError"]
       ELSE IF ~ReshapeOk(pat.x, UnpatchifyShape(pat.x, pat.p))
       THEN pat' = [pat EXCEPT !.pc = "error"] @@ [raised |-> "RuntimeError"]
       ELSE pat' = [pat EXCEPT !.pc = "done"] @@ [imgs_out |-> unpatchify(pat.x, pat.p)]
    /\ UNCHANGED <<enc, dec, fwd>>

PatchInit == PatInit /\ enc = EncIdle /\ dec = DecIdle /\ fwd = FwdIdle

PatchNext == Patchify \/ Unpatchify

SpecPatch == PatchInit /\ [][PatchNext]_vars

(***************************************************************************)
(* Claims about patchify and unpatchify (SpecPatch).                       *)
(***************************************************************************)
\* H == W, H divisible by the patch size; the channel count of the batch is
\* the configured one by construction.
ValidImage == PatchifyOk(pat.imgs, pat.p)

\* Pixel (n, c, row, col) of an image tensor.
ImagePixel(t, n, c, row, col) == t.data[Ravel(<<n, c, row, col>>, t.shape)]

\* patchify places pixel (c, a, b) of grid patch (h, w) at sequence index
\* h*(W/p)+w and flattened offset (a*p+b)*C+c.
PatchLayout ==
    LET N == pat.imgs.shape[1]
        C == pat.imgs.shape[2]
        g == pat.imgs.shape[3] \div pat.p
    IN  /\ pat.x.shape = <<N, g * g, pat.p * pat.p * C>>
        /\ \A n \in 0..(N - 1), c \in 0..(C - 1), h \in 0..(g - 1), w \in 0..(g - 1),
              a \in 0..(pat.p - 1), b \in 0..(pat.p - 1) :
             pat.x.data[Ravel(<<n, h * g + w, (a * pat.p + b) * C + c>>, pat.x.shape)]
               = ImagePixel(pat.imgs, n, c, h * pat.p + a, w * pat.p + b)

\* C4: for every valid image batch [N,C,H,W] with C the configured channel
\* count, patchify lays the pixels out as PatchLayout says and
\* unpatchify(patchify(x)) == x exactly.
C4_RoundTrip ==
    ValidImage =>
        /\ pat.pc # "error"
        /\ pat.pc \in {"patchified", "done"} => PatchLayout
        /\ pat.pc = "done" => pat.imgs_out = pat.imgs

\* The round trip of the three-channel batches, the channel count that
\* patchify and unpatchify spell out.
RoundTripThreeChannels ==
    (ValidImage /\ pat.in_chans = 3) =>
        /\ pat.pc # "error"
        /\ pat.pc \in {"patchified", "done"} => PatchLayout
        /\ pat.pc = "done" => pat.imgs_out = pat.imgs

(***************************************************************************)
(* CycleMAE.forward.  A tensor of the batch is the sequence of its rows;   *)
(* a row names the decoder and the encode pass it came from.  deps is the  *)
(* set of module invocations autograd can reach from the value.            *)
(***************************************************************************)
MaxDomains == 6
MaxBatch == 9
tao == 100000

\* rows[lo:hi] with 0 <= lo <= hi, as Python clips it.
PySlice(rows, lo, hi) == SubSeq(rows, Min(lo, Len(rows)) + 1, Min(hi, Len(rows)))

RECURSIVE CatAll(_)
CatAll(list) == IF list = <<>> THEN <<>> ELSE Head(list) \o CatAll(Tail(list))

FirstPass == [pass |-> 1, src |-> 0 - 1]
CyclePass(i) == [pass |-> 2, src |-> i]

EncoderNode(e) == [op |-> "encoder", pass |-> e.pass, src |-> e.src, dec |-> 0 - 1]
DecoderNode(e, d) == [op |-> "decoder", pass |-> e.pass, src |-> e.src, dec |-> d]

\* self.encoder(x, mask_ratio): a latent, and the mask of a fresh masking draw.
Encode(e, N, xdeps) ==
    [latent |-> [enc |-> e, N |-> N, deps |-> xdeps \cup {EncoderNode(e)}],
     mask |-> [k \in 1..N |-> [enc |-> e, row |-> k - 1]]]

\* self.multi_domain_decoders[f'decoder_{d}'](latent, ids_restore)
HasDecoder(K, d) == d \in 0..(K - 1)

Decode(d, latent) ==
    [dec |-> d, enc |-> latent.enc,
     rows |-> [k \in 1..latent.N |-> [dec |-> d, enc |-> latent.enc, row |-> k - 1]],
     deps |-> latent.deps \cup {DecoderNode(latent.enc, d)}]

\* tensor.detach(), ignoring autograd history.
DetachKeepsGraph(t) == t

\* tensor.detach()
Detach(t) == [t EXCEPT !.deps = {}]

\* forward_loss(imgs, pred, mask): the per-patch loss rows, pred row k against
\* image row k; the mask argument is not used.
forward_loss(imgs, pred_rows, pred_deps) ==
    [rows |-> [k \in 1..Len(pred_rows) |-> [pred |-> pred_rows[k], target |-> imgs[k]]],
     deps |-> pred_deps]

\* a * b over the row axis, with torch's broadcasting.
MulOk(a, b) == Len(a) = Len(b) \/ Len(a) = 1 \/ Len(b) = 1
Mul(a, b) ==
    LET n == IF Len(a) = 1 THEN Len(b) ELSE Len(a)
    IN  [k \in 1..n |-> [loss |-> a[IF Len(a) = 1 THEN 1 ELSE k],
                         mask |-> b[IF Len(b) = 1 THEN 1 ELSE k]]]

\* (torch.cat(list) * mask).sum() / mask.sum()
MaskedMean(list, mask) ==
    [rows |-> Mul(CatAll([k \in 1..Len(list) |-> list[k].rows]), mask),
     denom |-> mask,
     deps |-> UNION {list[k].deps : k \in 1..Len(list)}]

NoTerm == [rows |-> <<>>, denom |-> <<>>, deps |-> {}, none |-> TRUE]

OriginalRows(N) == [k \in 1..N |-> k - 1]

FwdInit ==
    \E K \in 1..MaxDomains, N \in 1..MaxBatch :
        fwd = [pc |-> "encode", num_domains |-> K, N |-> N, i |-> 0, j |-> 0,
               latent |-> <<>>, mask |-> <<>>, pred_list |-> <<>>,
               loss_recons_list |-> <<>>, bz |-> 0, loss_recons_list_useful |-> <<>>,
               loss_recons |-> NoTerm,
               loss_cycle |-> <<>>, loss_cycle_list |-> <<>>,
               decoder_mid_feature_list |-> <<<<>>, <<>>, <<>>>>,
               loss_contrastive |-> <<>>, loss |-> <<>>, raised |-> "",
               returned |-> FALSE]

\* line 333
FirstEncode ==
    /\ fwd.pc = "encode"
    /\ LET e == Encode(FirstPass, fwd.N, {})
       IN  fwd' = [fwd EXCEPT !.pc = "decode", !.i = 0,
                              !.latent = e.latent, !.mask = e.mask]
    /\ UNCHANGED <<enc, dec, pat>>

\* lines 337-342, one iteration of "for i in range(3)"
FirstDecode ==
    /\ fwd.pc = "decode"
    /\ IF ~HasDecoder(fwd.num_domains, fwd.i)
       THEN fwd' = [fwd EXCEPT !.pc = "error", !.raised = "KeyError"]
       ELSE LET pred == Decode(fwd.i, fwd.latent)
                loss_recons == forward_loss(OriginalRows(fwd.N), pred.rows, pred.deps)
            IN  fwd' = [fwd EXCEPT !.pred_list = Append(@, pred),
                                   !.loss_recons_list = Append(@, loss_recons),
                                   !.i = @ + 1,
                                   !.pc = IF fwd.i + 1 < 3 THEN "decode" ELSE "recons"]
    /\ UNCHANGED <<enc, dec, pat>>

\* bz = int(loss_recons_list[0].shape[0] / 3)
Bz(list) == PyInt(Len(list[1].rows), 3)

\* loss_recons_list[i][i * bz:(i + 1) * bz] for i in range(3)
Useful(list, bz) ==
    [k \in 1..3 |-> [rows |-> PySlice(list[k].rows, (k - 1) * bz, k * bz),
                     deps |-> list[k].deps]]

\* lines 346-351
ReconsLoss ==
    /\ fwd.pc = "recons"
    /\ LET bz == Bz(fwd.loss_recons_list)
           useful == Useful(fwd.loss_recons_list, bz)
       IN  IF ~MulOk(CatAll([k \in 1..3 |-> useful[k].rows]), fwd.mask)
           THEN fwd' = [fwd EXCEPT !.pc = "error", !.raised = "RuntimeError", !.bz = bz,
                                   !.loss_recons_list_useful = useful]
           ELSE fwd' = [fwd EXCEPT !.pc = "reencode", !.i = 0, !.bz = bz,
                                   !.loss_recons_list_useful = useful,
                                   !.loss_recons = MaskedMean(useful, fwd.mask)]
    /\ UNCHANGED <<enc, dec, pat>>

\* lines 359-361: the encoder on unpatchify(pred_list[i].detach())
ReEncode ==
    /\ fwd.pc = "reencode"
    /\ LET e == Encode(CyclePass(fwd.i), fwd.N, Detach(fwd.pred_list[fwd.i + 1]).deps)
       IN  fwd' = [fwd EXCEPT !.pc = "cycle_decode", !.j = 0, !.loss_cycle_list = <<>>,
                              !.latent = e.latent, !.mask = e.mask]
    /\ UNCHANGED <<enc, dec, pat>>

\* lines 363-368, one iteration of "for j in range(3)"
CycleDecode ==
    /\ fwd.pc = "cycle_decode"
    /\ IF ~HasDecoder(fwd.num_domains, fwd.j)
       THEN fwd' = [fwd EXCEPT !.pc = "error", !.raised = "KeyError"]
       ELSE LET out == Decode(fwd.j, fwd.latent)
                lo == fwd.j * fwd.bz
                hi == (fwd.j + 1) * fwd.bz
                loss_cycle_tmp == forward_loss(PySlice(OriginalRows(fwd.N), lo, hi),
                                               PySlice(out.rows, lo, hi), out.deps)
            IN  fwd' = [fwd EXCEPT !.loss_cycle_list = Append(@, loss_cycle_tmp),
                                   !.decoder_mid_feature_list[fwd.j + 1] = Append(@, out),
                                   !.j = @ + 1,
                                   !.pc = IF fwd.j + 1 < 3 THEN "cycle_decode" ELSE "cycle_sum"]
    /\ UNCHANGED <<enc, dec, pat>>

\* line 370
CycleSum ==
    /\ fwd.pc = "cycle_sum"
    /\ IF ~MulOk(CatAll([k \in 1..3 |-> fwd.loss_cycle_list[k].rows]), fwd.mask)
       THEN fwd' = [fwd EXCEPT !.pc = "error", !.raised = "RuntimeError"]
       ELSE fwd' = [fwd EXCEPT !.loss_cycle = Append(@, MaskedMean(fwd.loss_cycle_list, fwd.mask)),
                               !.i = IF fwd.i + 1 < 3 THEN @ + 1 ELSE 0,
                               !.pc = IF fwd.i + 1 < 3 THEN "reencode" ELSE "contrastive"]
    /\ UNCHANGED <<enc, dec, pat>>

\* torch.stack(decoder_mid_feature_list[i]): [3, N] rows of features
Stack(list) ==
    LET N == Len(list[1].rows)
    IN  [shape |-> <<Len(list), N>>,
         data |-> [k \in 0..(Len(list) * N - 1) |-> list[(k \div N) + 1].rows[(k % N) + 1]]]

\* reshape([3, 3, -1] + shape[-2:]): the -1 is inferred when it can be
StackReshapeOk(t) == Prod(t.shape) # 0 /\ Prod(t.shape) % 9 = 0
StackShape(t) == <<3, 3, Prod(t.shape) \div 9>>

\* A bank that skips the permute.
BankAxesNotPermuted == <<1, 2, 3>>

\* permute(1, 0, 2, 3, 4), over the three leading axes
BankAxes == <<2, 1, 3>>

\* lines 376-380
Bank(list) ==
    LET t == Permute(Reshape(Stack(list), StackShape(Stack(list))), BankAxes)
    IN  Reshape(t, <<t.shape[1], t.shape[2] * t.shape[3]>>)

\* lines 375-383, one iteration of "for i in range(3)"
Contrastive ==
    /\ fwd.pc = "contrastive"
    /\ LET list == fwd.decoder_mid_feature_list[fwd.i + 1]
       IN  IF ~StackReshapeOk(Stack(list))
           THEN fwd' = [fwd EXCEPT !.pc = "error", !.raised = "RuntimeError"]
           ELSE fwd' = [fwd EXCEPT
                          !.loss_contrastive =
                              Append(@, [index |-> fwd.i, anchor |-> fwd.i,
                                         bank |-> Bank(list), tao |-> tao,
                                         deps |-> UNION {list[k].deps : k \in 1..Len(list)}]),
                          !.i = @ + 1,
                          !.pc = IF fwd.i + 1 < 3 THEN "contrastive" ELSE "compose"]
    /\ UNCHANGED <<enc, dec, pat>>

\* lines 385-386
Compose ==
    /\ fwd.pc = "compose"
    /\ fwd' = [fwd EXCEPT !.pc = "done", !.returned = TRUE,
                           !.loss = [recons |-> <<1, fwd.loss_recons>>,
                                     cycle |-> <<2, fwd.loss_cycle>>,
                                     contrastive |-> <<2, fwd.loss_contrastive>>]]
    /\ UNCHANGED <<enc, dec, pat>>

ForwardInit == FwdInit /\ enc = EncIdle /\ dec = DecIdle /\ pat = PatIdle

ForwardNext ==
    \/ FirstEncode
    \/ FirstDecode
    \/ ReconsLoss
    \/ ReEncode
    \/ CycleDecode
    \/ CycleSum
    \/ Contrastive
    \/ Compose

SpecForward == ForwardInit /\ [][ForwardNext]_vars

(***************************************************************************)
(* Claims about the masking and the restore step (SpecMask).               *)
(***************************************************************************)
ValidRatio(r) == 0 <= r /\ r < RatioDen

RECURSIVE SumRow(_, _)
SumRow(row, n) == IF n = 0 THEN 0 ELSE row[n - 1] + SumRow(row, n - 1)

\* floor(L * (1 - mask_ratio))
FloorKeep(L, ratio) == (L * (RatioDen - ratio)) \div RatioDen

\* The original patch indices gathered into the kept sequence of sample n.
KeptPatches(n) ==
    {enc.ids_shuffle[n][k] : k \in 0..(Cardinality(DOMAIN enc.x_masked[n]) - 1)}

\* C1: after the restore step of Decoder.forward, position p of the restored
\* sequence holds the visible token the encoder took from original patch p
\* when p was kept and the placeholder token when p was removed; every
\* visible token occurs exactly once and the placeholders fill the other
\* L - len_keep positions.
C1_DecoderRestore ==
    dec.pc = "restored" =>
        \A n \in 0..(enc.N - 1) :
            /\ DOMAIN dec.x_[n] = 0..(enc.L - 1)
            /\ \A p \in 0..(enc.L - 1) :
                 dec.x_[n][p] = IF p \in KeptPatches(n)
                                THEN PatchTokens(n, enc.L)[p]
                                ELSE MaskToken(n)
            /\ \A k \in 0..(Cardinality(DOMAIN enc.x_masked[n]) - 1) :
                 Cardinality({p \in 0..(enc.L - 1) : dec.x_[n][p] = enc.x_masked[n][k]}) = 1
            /\ Cardinality({p \in 0..(enc.L - 1) : dec.x_[n][p] = MaskToken(n)})
                 = enc.L - Cardinality(DOMAIN enc.x_masked[n])
            /\ dec.x[n][0] = ClsToken(n)

\* A restore of two samples with different shuffles, some patches kept and
\* some removed, the kept ones not in their original order.
C1_Witness ==
    /\ dec.pc = "restored"
    /\ enc.N = 2
    /\ enc.L = 3
    /\ Cardinality(DOMAIN enc.x_masked[0]) = 2
    /\ enc.ids_shuffle[0] # enc.ids_shuffle[1]
    /\ enc.ids_shuffle[0][0] = 2
    /\ dec.x_[0][2] = PatchTokens(0, 3)[2]
    /\ \E p \in 0..2 : dec.x_[0][p] = MaskToken(0)

C7_InvalidRatioRejected ==
    enc.pc = "masked" => ValidRatio(enc.mask_ratio)

(***************************************************************************)
(* Claims about CycleMAE.forward (SpecForward).                            *)
(***************************************************************************)
Divisible == fwd.N % fwd.num_domains = 0
Finished == fwd.pc \in {"done", "error"}

\* The first-pass mask, row by row.
FirstMask == [k \in 1..fwd.N |-> [enc |-> FirstPass, row |-> k - 1]]
\* The mask of the re-encode of domain d's generated image.
CycleMask(d) == [k \in 1..fwd.N |-> [enc |-> CyclePass(d), row |-> k - 1]]

\* C3: with bz = N/num_domains, row r of the concatenated per-patch loss
\* multiplied by the first-pass mask is DomainDecoder[r div bz]'s prediction
\* for row r against original row r, for every r in [0,N); the concatenation
\* has exactly N rows in original order.
C3_DomainDiagonal ==
    (Divisible /\ Len(fwd.loss_recons_list_useful) > 0) =>
        LET bz == fwd.N \div fwd.num_domains
            cat == CatAll([k \in 1..Len(fwd.loss_recons_list_useful) |->
                             fwd.loss_recons_list_useful[k].rows])
        IN  /\ Len(cat) = fwd.N
            /\ \A r \in 0..(fwd.N - 1) :
                 /\ cat[r + 1].pred = [dec |-> r \div bz, enc |-> FirstPass, row |-> r]
                 /\ cat[r + 1].target = r
            /\ fwd.raised = "" =>
                 /\ fwd.loss_recons.denom = FirstMask
                 /\ Len(fwd.loss_recons.rows) = fwd.N
                 /\ \A r \in 0..(fwd.N - 1) :
                      /\ fwd.loss_recons.rows[r + 1].loss = cat[r + 1]
                      /\ fwd.loss_recons.rows[r + 1].mask = FirstMask[r + 1]

\* C5: with num_domains = K, a forward call decodes the first-pass latent
\* with each DomainDecoder[d], d in [0,K), exactly once and no other; the
\* cycle pass re-encodes exactly K generated images and applies every
\* DomainDecoder[j], j in [0,K), to each; bz = N/K.
C5_EveryDomainDecoder ==
    (Divisible /\ Finished) =>
        LET K == fwd.num_domains
        IN  /\ fwd.pc = "done"
            /\ Len(fwd.pred_list) = K
            /\ \A d \in 0..(K - 1) :
                 /\ fwd.pred_list[d + 1].dec = d
                 /\ fwd.pred_list[d + 1].enc = FirstPass
            /\ fwd.bz = fwd.N \div K
            /\ Len(fwd.loss_cycle) = K
            /\ Len(fwd.decoder_mid_feature_list) = K
            /\ \A j \in 0..(K - 1) :
                 /\ Len(fwd.decoder_mid_feature_list[j + 1]) = K
                 /\ \A d \in 0..(K - 1) :
                      /\ fwd.decoder_mid_feature_list[j + 1][d + 1].dec = j
                      /\ fwd.decoder_mid_feature_list[j + 1][d + 1].enc = CyclePass(d)

\* C6: when N is not divisible by num_domains, forward ends in an error
\* raised before any loss term is computed, and never returns a loss.
C6_IndivisibleBatchFatal ==
    ~Divisible =>
        /\ fwd.pc # "done"
        /\ ~fwd.returned
        /\ fwd.loss_recons = NoTerm
        /\ fwd.loss_cycle = <<>>
        /\ fwd.loss_contrastive = <<>>

\* C8: for each source domain d, row r of the per-patch cycle loss is
\* DomainDecoder[r div bz] applied to the re-encoded latent of d's generated
\* image against original row r, for every r in [0,N); d's contribution is
\* weighted and normalised by the re-encode mask of d, and loss_cycle is the
\* sum of the num_domains contributions.
C8_CycleLossAssembly ==
    (Divisible /\ fwd.pc \in {"contrastive", "compose", "done"}) =>
        LET K == fwd.num_domains
            bz == fwd.N \div K
        IN  /\ Len(fwd.loss_cycle) = K
            /\ \A d \in 0..(K - 1) :
                 LET term == fwd.loss_cycle[d + 1]
                 IN  /\ Len(term.rows) = fwd.N
                     /\ term.denom = CycleMask(d)
                     /\ \A r \in 0..(fwd.N - 1) :
                          /\ term.rows[r + 1].loss.pred
                               = [dec |-> r \div bz, enc |-> CyclePass(d), row |-> r]
                          /\ term.rows[r + 1].loss.target = r
                          /\ term.rows[r + 1].mask = CycleMask(d)[r + 1]

\* Entry (g, k) of a bank.
BankAt(bank, g, k) == bank.data[Ravel(<<g, k>>, bank.shape)]

\* C9 as stated: the bank of domain d's term holds the features of every
\* decoder j on the re-encoded latent of d's generated image, its leading
\* axis (the num_domains softmax candidates) indexes the domain that produced
\* the re-encoded input, and the term is the negative log-softmax at index d
\* of the products of bank entry d with every entry, over tao.
C9_BankBySourceDomain ==
    \A t \in 1..Len(fwd.loss_contrastive) :
        LET term == fwd.loss_contrastive[t]
            d == t - 1
            bank == term.bank
        IN  /\ term.index = d
            /\ term.anchor = d
            /\ term.tao = tao
            /\ bank.shape[1] = fwd.num_domains
            /\ {<<bank.data[k].dec, bank.data[k].enc>> : k \in DOMAIN bank.data}
                 = {<<j, CyclePass(d)>> : j \in 0..(fwd.num_domains - 1)}
            /\ \A g \in 0..(bank.shape[1] - 1), k \in 0..(bank.shape[2] - 1) :
                 BankAt(bank, g, k).enc = CyclePass(g)

\* C9 as amended: the bank of the term at index d holds the features of
\* decoder d on the re-encoded latent of every generated image forward
\* re-encodes; its leading axis (the softmax candidates) indexes the batch
\* group of the row (row div bz), the second axis runs over the generated
\* images and, within each, the bz rows of the group; the term is the
\* negative log-softmax at index d of the products of bank entry d with
\* every entry, over tao.
C9_BankByDecoder ==
    \A t \in 1..Len(fwd.loss_contrastive) :
        LET term == fwd.loss_contrastive[t]
            d == t - 1
            bank == term.bank
            sources == Len(fwd.loss_cycle)
        IN  /\ term.index = d
            /\ term.anchor = d
            /\ term.tao = tao
            /\ bank.shape = <<fwd.N \div fwd.bz, sources * fwd.bz>>
            /\ \A g \in 0..(bank.shape[1] - 1), k \in 0..(bank.shape[2] - 1) :
                 BankAt(bank, g, k) = [dec |-> d, enc |-> CyclePass(k \div fwd.bz),
                                       row |-> g * fwd.bz + (k % fwd.bz)]

\* A finished call on nine rows: three groups of three, three terms.
C9_Witness ==
    /\ fwd.pc = "done"
    /\ fwd.N = 9
    /\ fwd.num_domains = 3
    /\ Len(fwd.loss_contrastive) = 3
    /\ BankAt(fwd.loss_contrastive[2].bank, 2, 4) = [dec |-> 1, enc |-> CyclePass(1), row |-> 7]

FirstPassNodes(K) ==
    {EncoderNode(FirstPass)} \cup {DecoderNode(FirstPass, d) : d \in 0..(K - 1)}
CyclePassNodes(K) ==
    UNION {{EncoderNode(CyclePass(i))} \cup {DecoderNode(CyclePass(i), d) : d \in 0..(K - 1)} :
             i \in 0..(K - 1)}

\* C10: the cycle and the contrastive terms reach parameters only through
\* the second-pass encoder and decoder invocations, never through the first
\* encode or a first-pass decode; the reconstruction loss only through the
\* first pass.
C10_GradientIsolation ==
    /\ \A t \in 1..Len(fwd.loss_cycle) :
         /\ fwd.loss_cycle[t].deps \cap FirstPassNodes(fwd.num_domains) = {}
         /\ fwd.loss_cycle[t].deps \subseteq CyclePassNodes(fwd.num_domains)
    /\ \A t \in 1..Len(fwd.loss_contrastive) :
         /\ fwd.loss_contrastive[t].deps \cap FirstPassNodes(fwd.num_domains) = {}
         /\ fwd.loss_contrastive[t].deps \subseteq CyclePassNodes(fwd.num_domains)
    /\ fwd.loss_recons.deps \subseteq FirstPassNodes(fwd.num_domains)
    /\ fwd.pc \in {"cycle_decode", "cycle_sum"} =>
         fwd.latent.deps = {EncoderNode(CyclePass(fwd.i))}

\* A returned loss whose three kinds of term all carry dependencies.
C10_Witness ==
    /\ fwd.pc = "done"
    /\ fwd.N = 3
    /\ fwd.loss_recons.deps = FirstPassNodes(3)
    /\ DecoderNode(CyclePass(2), 1) \in fwd.loss_cycle[3].deps
    /\ EncoderNode(CyclePass(0)) \in fwd.loss_contrastive[3].deps

=============================================================================
